---- MODULE Spec2Model ----
\* Model of datsci/eda.py: get_feature_clusters, summarize_big_training_data,
\* summarize_training_data and find_binary_cols.
EXTENDS Integers, Sequences, FiniteSets, TLC

VARIABLES
    \* ---- get_feature_clusters ----
    df_corr,        \* df.corr(): df_corr[a][b], correlation times 100, or NaN
    cols,           \* the cols argument: [none |-> BOOLEAN, list |-> sequence]
    nodes,          \* sequence of column names iterated by the outer loop
    thresh,         \* the thresh argument, times 100
    clusters,       \* sequence of sets of columns built so far
    ni,             \* position of the outer `for cn in nodes` loop
    q,              \* contents of the bounded queue of get_cluster
    seen,           \* the seen set of get_cluster
    todo,           \* neighbours still to visit in `for _n2 in get_neighbors(_n)`
    pc,             \* "idle", "loop", "bfs", "for", "blocked"
    results,        \* results[t]: what the call with thresh = t returned
    \* ---- summarize_big_training_data / summarize_training_data ----
    rows,           \* data rows read from the file so far (header excluded)
    n_uniq_toomany,
    summary_pkl,    \* TRUE when a pickle file name is given, FALSE for None
    n_rows,
    label_counts,
    null_counts,
    col_max,
    col_min,
    col_numeric,
    col_uniq_vals,
    col_uniq_vals_toomany,
    spc,            \* "reading", "returned", "ZeroDivisionError"
    big_out,        \* what summarize_big_training_data returned
    mem_out,        \* what summarize_training_data returned on the same rows
    pkl,            \* set of functions that wrote the pickle file
    \* ---- find_binary_cols ----
    df,             \* df[c]: sequence of cell values of column c
    bi,             \* position of the `for cname in df` loop
    binary_cols,    \* the list being built
    bpc             \* "loop", "returned"

cvars == <<df_corr, cols, nodes, thresh, clusters, ni, q, seen, todo, pc, results>>
svars == <<rows, n_uniq_toomany, summary_pkl, n_rows, label_counts, null_counts,
           col_max, col_min, col_numeric, col_uniq_vals, col_uniq_vals_toomany,
           spc, big_out, mem_out, pkl>>
bvars == <<df, bi, binary_cols, bpc>>
vars == <<cvars, svars, bvars>>

\* ---------------------------------------------------------------------
\* Floating point values: integers, with np.inf, -np.inf and np.nan.
PosInf == 1000
NegInf == -1000
NaN == 9999

\* Python's a > b and a < b on floats: every comparison with nan is False.
Gt(a, b) == a # NaN /\ b # NaN /\ a > b
Lt(a, b) == a # NaN /\ b # NaN /\ a < b
Ge(a, b) == a # NaN /\ b # NaN /\ a >= b

\* Python's max(a, b) and min(a, b): a unless b compares beyond it.
PyMax(a, b) == IF Gt(b, a) THEN b ELSE a
PyMin(a, b) == IF Lt(b, a) THEN b ELSE a

isinf(x) == x = PosInf \/ x = NegInf

RECURSIVE SetToSeq(_)
\* The members of a set of integers in increasing order.
SetToSeq(S) ==
    IF S = {} THEN <<>>
    ELSE LET m == CHOOSE x \in S : \A y \in S : x <= y
         IN <<m>> \o SetToSeq(S \ {m})

Range(s) == {s[i] : i \in 1..Len(s)}

\* =====================================================================
\* get_feature_clusters
\* =====================================================================
NCols == 3
Columns == 1..NCols             \* df.columns, in table order

\* Correlations (times 100) a pair of columns of non-zero variance can have.
CorrVals == {0, 60, 100}
\* Values of the thresh argument (times 100).
Thresholds == {50, 100}

NotRun == [done |-> FALSE, clusters |-> <<>>]

\* The pairs of distinct columns, each once.
Pairs == {p \in Columns \X Columns : p[1] < p[2]}

\* The matrices df.corr() can return: symmetric; a column of zero variance
\* (one of Z) has nan in its whole row and column, its diagonal included; any
\* other column has 1.0 on the diagonal.
CorrMatrices ==
    {[a \in Columns |->
        [b \in Columns |->
            IF a \in Z \/ b \in Z THEN NaN
            ELSE IF a = b THEN 100
            ELSE IF a < b THEN u[<<a, b>>] ELSE u[<<b, a>>]]] :
        Z \in SUBSET Columns, u \in [Pairs -> CorrVals]}

\* The cols arguments: None, or a list of columns of the table.
ColsArgs ==
    {[none |-> TRUE, list |-> <<>>]}
      \cup {[none |-> FALSE, list |-> SetToSeq(S)] : S \in SUBSET Columns}

\* get_neighbors with > in place of >=.
get_neighbors_gt(n) ==
    LET neighbors == {m \in Columns : Gt(df_corr[n][m], thresh)}
    IN  IF neighbors # {} THEN neighbors \ {n} ELSE neighbors

\* get_neighbors with the comparison turned round: df_corr[n] <= thresh.
get_neighbors_le(n) ==
    LET neighbors == {m \in Columns : Ge(thresh, df_corr[n][m])}
    IN  IF neighbors # {} THEN neighbors \ {n} ELSE neighbors

\* set(df_corr[df_corr[n] >= thresh].index), then n removed.  A nan never
\* satisfies >=.  When the set is non-empty it holds n (n's row is not nan,
\* so its diagonal is 1.0 >= thresh), so remove(n) never raises.
get_neighbors(n) ==
    LET neighbors == {m \in Columns : Ge(df_corr[n][m], thresh)}
    IN  IF neighbors # {} THEN neighbors \ {n} ELSE neighbors

\* The columns already placed in a cluster: [n for cl in clusters for n in cl]
Clustered == UNION Range(clusters)

\* queue.Queue(len(nodes)): maxsize <= 0 means unbounded.
QueueFull == Len(nodes) > 0 /\ Len(q) >= Len(nodes)

\* get_feature_clusters(df, cols, thresh): lines 194-200 and 229.
Call(t) ==
    /\ pc = "idle"
    /\ ~results[t].done
    /\ thresh' = t
    /\ nodes' = IF cols.none THEN SetToSeq(Columns) ELSE cols.list
    /\ clusters' = <<>>
    /\ ni' = 1
    /\ pc' = "loop"
    /\ UNCHANGED <<svars, bvars, df_corr, cols, q, seen, todo, results>>

\* for cn in nodes: cn is already in a cluster.
SkipNode ==
    /\ pc = "loop"
    /\ ni <= Len(nodes)
    /\ nodes[ni] \in Clustered
    /\ ni' = ni + 1
    /\ UNCHANGED <<svars, bvars, df_corr, cols, nodes, thresh, clusters, q, seen, todo,
                   pc, results>>

\* for cn in nodes: get_cluster(cn) starts: the queue is created, cn is put.
StartCluster ==
    /\ pc = "loop"
    /\ ni <= Len(nodes)
    /\ nodes[ni] \notin Clustered
    /\ q' = <<nodes[ni]>>
    /\ seen' = {nodes[ni]}
    /\ todo' = {}
    /\ pc' = "bfs"
    /\ UNCHANGED <<svars, bvars, df_corr, cols, nodes, thresh, clusters, ni, results>>

\* while not q.empty(): _n = q.get(); the for loop over its neighbours starts.
Get ==
    /\ pc = "bfs"
    /\ q # <<>>
    /\ q' = Tail(q)
    /\ todo' = get_neighbors(Head(q))
    /\ pc' = IF todo' = {} THEN "bfs" ELSE "for"
    /\ UNCHANGED <<svars, bvars, df_corr, cols, nodes, thresh, clusters, ni, seen,
                   results>>

\* One iteration of `for _n2 in get_neighbors(_n)`, in the set's iteration
\* order.  q.put on a full queue blocks, and nothing ever takes from it.
ForNeighbor ==
    /\ pc = "for"
    /\ \E _n2 \in todo :
          /\ todo' = todo \ {_n2}
          /\ IF _n2 \in seen
             THEN /\ pc' = IF todo' = {} THEN "bfs" ELSE "for"
                  /\ UNCHANGED <<q, seen>>
             ELSE IF QueueFull
             THEN /\ pc' = "blocked"
                  /\ UNCHANGED <<q, seen>>
             ELSE /\ q' = Append(q, _n2)
                  /\ seen' = seen \cup {_n2}
                  /\ pc' = IF todo' = {} THEN "bfs" ELSE "for"
    /\ UNCHANGED <<svars, bvars, df_corr, cols, nodes, thresh, clusters, ni, results>>

\* get_cluster returns seen; clusters.append(...).
EndCluster ==
    /\ pc = "bfs"
    /\ q = <<>>
    /\ clusters' = Append(clusters, seen)
    /\ ni' = ni + 1
    /\ pc' = "loop"
    /\ UNCHANGED <<svars, bvars, df_corr, cols, nodes, thresh, q, seen, todo, results>>

\* return clusters
Return ==
    /\ pc = "loop"
    /\ ni > Len(nodes)
    /\ results' = [results EXCEPT ![thresh] = [done |-> TRUE, clusters |-> clusters]]
    /\ pc' = "idle"
    /\ UNCHANGED <<svars, bvars, df_corr, cols, nodes, thresh, clusters, ni, q, seen,
                   todo>>

\* =====================================================================
\* summarize_big_training_data (the streaming pass) and
\* summarize_training_data (the same cells held in a DataFrame)
\* =====================================================================
MaxRows == 3

None == 8888

y_name == "Label"
colnames == <<"Label", "X">>
ColSet == Range(colnames)

\* Cell texts, as sequences of characters.
Blank == <<>>
LabelVals == {<<>>, <<"1">>, <<"a">>}
XVals == {<<>>, <<" ">>, <<"0">>, <<"1">>, <<"a">>, <<"i", "n", "f">>}
CellVals(c) == IF c = y_name THEN LabelVals ELSE XVals
AllCells == LabelVals \cup XVals
Rows == {r \in [ColSet -> AllCells] : \A c \in ColSet : r[c] \in CellVals(c)}

\* Values of the n_uniq_toomany argument.
Ceilings == {1, 2}

RECURSIVE lstrip(_)
lstrip(s) == IF s # <<>> /\ Head(s) = " " THEN lstrip(Tail(s)) ELSE s

RECURSIVE rstrip(_)
rstrip(s) ==
    IF s # <<>> /\ s[Len(s)] = " " THEN rstrip(SubSeq(s, 1, Len(s) - 1)) ELSE s

\* str.strip()
strip(s) == rstrip(lstrip(s))

Digits == <<"0", "1", "2", "3", "4", "5", "6", "7", "8", "9">>
IsDigit(ch) == \E i \in 1..10 : Digits[i] = ch
DigitVal(ch) == (CHOOSE i \in 1..10 : Digits[i] = ch) - 1

RECURSIVE Decimal(_, _)
Decimal(s, acc) ==
    IF s = <<>> THEN acc ELSE Decimal(Tail(s), 10 * acc + DigitVal(Head(s)))

\* float(text): surrounding blanks are ignored; digits give their value and
\* "inf" gives infinity; anything else (the empty text too) is a ValueError.
float(s) ==
    LET t == strip(s)
    IN  IF t = <<"i", "n", "f">> THEN [ok |-> TRUE, val |-> PosInf]
        ELSE IF t # <<>> /\ \A i \in 1..Len(t) : IsDigit(t[i])
        THEN [ok |-> TRUE, val |-> Decimal(t, 0)]
        ELSE [ok |-> FALSE, val |-> 0]

\* Members of the col_uniq_vals sets: a Python float or a Python str.  A float
\* never equals a str.
FloatObj(v) == [k |-> "float", f |-> v, s |-> <<>>]
StrObj(t) == [k |-> "str", f |-> 0, s |-> t]

\* Line 395: col_val = row_dict[colname].strip()
Stripped(row, c) == strip(row[c])

\* Lines 400-408: does this cell go through float() successfully?
Parsed(row, c) ==
    Stripped(row, c) # Blank /\ col_numeric[c] /\ float(Stripped(row, c)).ok

\* The object bound to col_val when line 413 adds it to the set: line 402
\* rebinds col_val to the float when the parse succeeds.
UniqObj(row, c) ==
    IF Parsed(row, c) THEN FloatObj(float(Stripped(row, c)).val)
    ELSE StrObj(Stripped(row, c))

\* Lines 411-413
NewUniq(row, c) ==
    IF c \notin col_uniq_vals_toomany
    THEN col_uniq_vals[c] \cup {UniqObj(row, c)}
    ELSE col_uniq_vals[c]

\* Lines 376-415: the body of the row loop for one row of the reader.
ReadRow ==
    /\ spc = "reading"
    /\ Len(rows) < MaxRows
    /\ \E row \in Rows :
          /\ rows' = Append(rows, row)
          /\ n_rows' = n_rows + 1
          /\ label_counts' =
                IF y_name \notin col_uniq_vals_toomany
                THEN [label_counts EXCEPT ![row[y_name]] = @ + 1]
                ELSE label_counts
          /\ null_counts' =
                [c \in ColSet |->
                    IF Stripped(row, c) = Blank THEN null_counts[c] + 1
                    ELSE null_counts[c]]
          /\ col_max' =
                [c \in ColSet |->
                    IF Parsed(row, c)
                    THEN PyMax(col_max[c], float(Stripped(row, c)).val)
                    ELSE col_max[c]]
          /\ col_min' =
                [c \in ColSet |->
                    IF Parsed(row, c)
                    THEN PyMin(col_min[c], float(Stripped(row, c)).val)
                    ELSE col_min[c]]
          /\ col_numeric' =
                [c \in ColSet |->
                    IF /\ Stripped(row, c) # Blank
                       /\ col_numeric[c]
                       /\ ~float(Stripped(row, c)).ok
                    THEN FALSE
                    ELSE col_numeric[c]]
          /\ col_uniq_vals' = [c \in ColSet |-> NewUniq(row, c)]
          /\ col_uniq_vals_toomany' =
                col_uniq_vals_toomany
                  \cup {c \in ColSet : Cardinality(NewUniq(row, c)) > n_uniq_toomany}
    /\ UNCHANGED <<cvars, bvars, n_uniq_toomany, summary_pkl, spc, big_out, mem_out, pkl>>

\* Lines 422-425
Extreme(c, x) == IF col_numeric[c] /\ ~isinf(x) THEN x ELSE None

\* Lines 418-434: the summary line of one column.  perc_null is kept as the
\* pair <<numerator, denominator>> of the division.
BigColumnSummary(c) ==
    [n_null |-> null_counts[c],
     perc_null |-> <<null_counts[c], n_rows>>,
     max |-> Extreme(c, col_max[c]),
     min |-> Extreme(c, col_min[c]),
     n_uniq |-> IF c \in col_uniq_vals_toomany
                THEN [toomany |-> TRUE, n |-> n_uniq_toomany]
                ELSE [toomany |-> FALSE, n |-> Cardinality(col_uniq_vals[c])]]

NoLabelCounts == [v \in LabelVals |-> 0]
NoColumnSummary ==
    [n_null |-> 0, perc_null |-> <<0, 0>>, max |-> None, min |-> None,
     n_uniq |-> [toomany |-> FALSE, n |-> 0]]
NoOut ==
    [done |-> FALSE, summary |-> [c \in ColSet |-> NoColumnSummary], n_rows |-> 0,
     label_counts |-> [none |-> TRUE, counts |-> NoLabelCounts]]

\* Lines 417-449, after the reader is exhausted.  With no data row line 421
\* divides by n_rows = 0 and raises ZeroDivisionError before anything is
\* written or returned.
PostPass ==
    /\ spc = "reading"
    /\ IF n_rows = 0
       THEN /\ spc' = "ZeroDivisionError"
            /\ UNCHANGED <<big_out, pkl>>
       ELSE /\ spc' = "returned"
            /\ big_out' =
                  [done |-> TRUE,
                   summary |-> [c \in ColSet |-> BigColumnSummary(c)],
                   n_rows |-> n_rows,
                   label_counts |->
                      IF y_name \in col_uniq_vals_toomany
                      THEN [none |-> TRUE, counts |-> NoLabelCounts]
                      ELSE [none |-> FALSE, counts |-> label_counts]]
            /\ pkl' = IF summary_pkl THEN pkl \cup {"big"} ELSE pkl
    /\ UNCHANGED <<cvars, bvars, rows, n_uniq_toomany, summary_pkl, n_rows,
                   label_counts,
                   null_counts, col_max, col_min, col_numeric, col_uniq_vals,
                   col_uniq_vals_toomany, mem_out>>

\* ---- summarize_training_data on a DataFrame holding the same cell texts ----

\* df[colname] of the DataFrame whose rows are the rows read.
Series(c) == [i \in 1..Len(rows) |-> rows[i][c]]

\* _is_null_or_blank on a str: `not val`; a str is neither 0 nor pd.isnull.
_is_null_or_blank(val) == val = <<>>

\* _get_uniq
_get_uniq(series) ==
    LET s == Range(series)
        n_unique == Cardinality({val \in s : ~_is_null_or_blank(val)})
        null_exists == \E val \in s : _is_null_or_blank(val)
    IN  IF null_exists THEN n_unique + 1 ELSE n_unique

RECURSIVE MinMaxLoop(_, _, _)
\* The for loop of _get_min_max from the remaining values on.
MinMaxLoop(series, minval, maxval) ==
    IF series = <<>>
    THEN <<IF isinf(minval) THEN NaN ELSE minval,
           IF isinf(maxval) THEN NaN ELSE maxval>>
    ELSE IF _is_null_or_blank(Head(series))
    THEN MinMaxLoop(Tail(series), minval, maxval)
    ELSE IF float(Head(series)).ok
    THEN MinMaxLoop(Tail(series),
                    PyMin(minval, float(Head(series)).val),
                    PyMax(maxval, float(Head(series)).val))
    ELSE <<NaN, NaN>>

\* _get_min_max
_get_min_max(series) == MinMaxLoop(series, PosInf, NegInf)

\* df[colname].apply(_is_null_or_blank).sum()
NullSum(series) ==
    Cardinality({i \in 1..Len(series) : _is_null_or_blank(series[i])})

\* df[y_name].value_counts(dropna=False).to_dict()
ValueCounts(series) ==
    [v \in LabelVals |-> Cardinality({i \in 1..Len(series) : series[i] = v})]

\* Lines 307-333.  n_null / n_rows is a pandas division: 0 / 0.0 is NaN, not
\* an exception, so an empty table gets a summary too.
SummarizeTrainingData ==
    /\ spc # "reading"
    /\ ~mem_out.done
    /\ mem_out' =
          [done |-> TRUE,
           summary |->
              [c \in ColSet |->
                  [n_null |-> NullSum(Series(c)),
                   perc_null |-> <<NullSum(Series(c)), Len(rows)>>,
                   max |-> _get_min_max(Series(c))[2],
                   min |-> _get_min_max(Series(c))[1],
                   n_uniq |-> [toomany |-> FALSE, n |-> _get_uniq(Series(c))]]],
           n_rows |-> Len(rows),
           label_counts |-> [none |-> FALSE, counts |-> ValueCounts(Series(y_name))]]
    /\ pkl' = IF summary_pkl THEN pkl \cup {"mem"} ELSE pkl
    /\ UNCHANGED <<cvars, bvars, rows, n_uniq_toomany, summary_pkl, n_rows,
                   label_counts,
                   null_counts, col_max, col_min, col_numeric, col_uniq_vals,
                   col_uniq_vals_toomany, spc, big_out>>

\* =====================================================================
\* find_binary_cols
\* =====================================================================
NBinCols == 2
NBinRows == 2
BinColumns == 1..NBinCols
\* Cell values of the frame: null, 0, 1 and another number.
BinVals == {NaN, 0, 1, 2}

\* col[~col.isnull()].value_counts().index: the distinct non-null values.
unique_vals(cname) == {df[cname][i] : i \in 1..NBinRows} \ {NaN}

\* Lines 102-110: is cname appended?
IsAppended(cname) ==
    /\ ~(Cardinality(unique_vals(cname)) > 2)
    /\ Cardinality(unique_vals(cname) \cap {0, 1}) = Cardinality(unique_vals(cname))

\* One iteration of `for cname in df`.
BinaryCol ==
    /\ bpc = "loop"
    /\ bi <= NBinCols
    /\ binary_cols' = IF IsAppended(bi) THEN Append(binary_cols, bi) ELSE binary_cols
    /\ bi' = bi + 1
    /\ UNCHANGED <<cvars, svars, df, bpc>>

\* return binary_cols
BinaryReturn ==
    /\ bpc = "loop"
    /\ bi > NBinCols
    /\ bpc' = "returned"
    /\ UNCHANGED <<cvars, svars, df, bi, binary_cols>>

\* =====================================================================
\* Specifications
\* =====================================================================
ClustersIdle ==
    /\ df_corr = [a \in Columns |-> [b \in Columns |-> NaN]]
    /\ cols = [none |-> TRUE, list |-> <<>>]
    /\ nodes = <<>>
    /\ thresh = 0
    /\ clusters = <<>>
    /\ ni = 1
    /\ q = <<>>
    /\ seen = {}
    /\ todo = {}
    /\ pc = "idle"
    /\ results = [t \in Thresholds |-> NotRun]

SummaryIdle ==
    /\ rows = <<>>
    /\ n_uniq_toomany = 1
    /\ summary_pkl = FALSE
    /\ n_rows = 0
    /\ label_counts = NoLabelCounts
    /\ null_counts = [c \in ColSet |-> 0]
    /\ col_max = [c \in ColSet |-> NegInf]
    /\ col_min = [c \in ColSet |-> PosInf]
    /\ col_numeric = [c \in ColSet |-> TRUE]
    /\ col_uniq_vals = [c \in ColSet |-> {}]
    /\ col_uniq_vals_toomany = {}
    /\ spc = "reading"
    /\ big_out = NoOut
    /\ mem_out = NoOut
    /\ pkl = {}

BinaryIdle ==
    /\ df = [c \in BinColumns |-> [i \in 1..NBinRows |-> NaN]]
    /\ bi = 1
    /\ binary_cols = <<>>
    /\ bpc = "loop"

\* A table (its correlation matrix) and a cols argument; no call made yet.
InitClusters ==
    /\ df_corr \in CorrMatrices
    /\ cols \in ColsArgs
    /\ nodes = <<>>
    /\ thresh = 0
    /\ clusters = <<>>
    /\ ni = 1
    /\ q = <<>>
    /\ seen = {}
    /\ todo = {}
    /\ pc = "idle"
    /\ results = [t \in Thresholds |-> NotRun]
    /\ SummaryIdle
    /\ BinaryIdle

NextClusters ==
    \/ \E t \in Thresholds : Call(t)
    \/ SkipNode
    \/ StartCluster
    \/ Get
    \/ ForNeighbor
    \/ EndCluster
    \/ Return

SpecClusters == InitClusters /\ [][NextClusters]_vars

\* Lines 359-375: the accumulators as created, the header read, no row yet.
InitSummary ==
    /\ rows = <<>>
    /\ n_uniq_toomany \in Ceilings
    /\ summary_pkl \in BOOLEAN
    /\ n_rows = 0
    /\ label_counts = NoLabelCounts
    /\ null_counts = [c \in ColSet |-> 0]
    /\ col_max = [c \in ColSet |-> NegInf]
    /\ col_min = [c \in ColSet |-> PosInf]
    /\ col_numeric = [c \in ColSet |-> TRUE]
    /\ col_uniq_vals = [c \in ColSet |-> {}]
    /\ col_uniq_vals_toomany = {}
    /\ spc = "reading"
    /\ big_out = NoOut
    /\ mem_out = NoOut
    /\ pkl = {}
    /\ ClustersIdle
    /\ BinaryIdle

NextSummary ==
    \/ ReadRow
    \/ PostPass
    \/ SummarizeTrainingData

SpecSummary == InitSummary /\ [][NextSummary]_vars

InitBinary ==
    /\ df \in [BinColumns -> [1..NBinRows -> BinVals]]
    /\ bi = 1
    /\ binary_cols = <<>>
    /\ bpc = "loop"
    /\ ClustersIdle
    /\ SummaryIdle

NextBinary ==
    \/ BinaryCol
    \/ BinaryReturn

SpecBinary == InitBinary /\ [][NextBinary]_vars

\* =====================================================================
\* Properties
\* =====================================================================

\* The columns a call considers: all of them for cols=None, else those of cols.
Considered == IF cols.none THEN Columns ELSE Range(cols.list)

\* The adjacency of the claims: distinct columns whose correlation is defined
\* and at least t.
Edge(a, b, t) == a # b /\ df_corr[a][b] # NaN /\ df_corr[a][b] >= t

RECURSIVE Reach(_, _)
\* The columns joined to a member of S by a chain of edges.
Reach(S, t) ==
    LET N == S \cup {b \in Columns : \E a \in S : Edge(a, b, t)}
    IN  IF N = S THEN S ELSE Reach(N, t)

Returned(t) == results[t].clusters

\* C1: the clusters a call returns are pairwise disjoint and their union is
\* exactly the considered column set.
C1_PartitionOfConsidered ==
    \A t \in Thresholds :
        results[t].done =>
            /\ \A i, j \in 1..Len(Returned(t)) :
                  i # j => Returned(t)[i] \cap Returned(t)[j] = {}
            /\ UNION Range(Returned(t)) = Considered

\* C2: every returned cluster is a connected component of the graph of the
\* pairs with corr >= threshold: it is exactly the set of columns joined to
\* any of its members by a chain of edges; a column without an edge is
\* returned alone.
C2_ClustersAreComponents ==
    \A t \in Thresholds :
        results[t].done =>
            \A i \in 1..Len(Returned(t)) :
                /\ Returned(t)[i] # {}
                /\ \A a \in Returned(t)[i] :
                      /\ Returned(t)[i] = Reach({a}, t)
                      /\ (\A b \in Columns : ~Edge(a, b, t)) => Returned(t)[i] = {a}

\* A call returned a cluster holding two columns that are joined only by a
\* chain, and another call returned a two-column cluster next to a singleton.
C2_Witness ==
    /\ results[50].done
    /\ \E i \in 1..Len(Returned(50)) :
          \E a, b \in Returned(50)[i] : a # b /\ ~Edge(a, b, 50)
    /\ results[100].done
    /\ \E i, j \in 1..Len(Returned(100)) :
          /\ Cardinality(Returned(100)[i]) = 2
          /\ Cardinality(Returned(100)[j]) = 1

\* C7: for thresholds t1 < t2 on the same table and cols, every cluster
\* returned under t2 is a subset of a cluster returned under t1.
C7_ThresholdMonotone ==
    \A t1, t2 \in Thresholds :
        (t1 < t2 /\ results[t1].done /\ results[t2].done) =>
            \A i \in 1..Len(Returned(t2)) :
                \E j \in 1..Len(Returned(t1)) : Returned(t2)[i] \subseteq Returned(t1)[j]

\* Both calls returned and raising the threshold split a cluster.
C7_Witness ==
    /\ results[50].done
    /\ results[100].done
    /\ \E i \in 1..Len(Returned(100)) :
          \E j \in 1..Len(Returned(50)) :
              /\ Returned(100)[i] \subseteq Returned(50)[j]
              /\ Returned(100)[i] # Returned(50)[j]

\* C10: no put on the bounded queue ever finds it full, so no call hangs.
C10_NoPutBlocks == pc # "blocked"

RECURSIVE SumCounts(_, _)
\* The sum of the counts f[v] over the keys in S.
SumCounts(f, S) ==
    IF S = {} THEN 0
    ELSE LET v == CHOOSE x \in S : TRUE IN f[v] + SumCounts(f, S \ {v})

\* The distinct trimmed values of column c in the rows read.
Distinct(c) == {strip(rows[i][c]) : i \in 1..Len(rows)}

\* C3: while the label column is not marked too-many, the label counts sum
\* to the rows processed; the returned label distribution sums to n_rows or
\* is None, and is None exactly when the label column has more than
\* n_uniq_toomany distinct values.
C3_LabelDistribution ==
    /\ (spc = "reading" /\ y_name \notin col_uniq_vals_toomany) =>
          SumCounts(label_counts, LabelVals) = Len(rows)
    /\ big_out.done =>
          /\ \/ big_out.label_counts.none
             \/ SumCounts(big_out.label_counts.counts, LabelVals) = big_out.n_rows
          /\ big_out.label_counts.none <=>
                (Cardinality(Distinct(y_name)) > n_uniq_toomany)

\* C4: on the same rows both summarizers report, for every column, the same
\* null count and fraction, the same min and max (absent in the same cases)
\* and, when the column's distinct values do not exceed the ceiling, the same
\* unique count.
C4_StreamEqualsInMemory ==
    (big_out.done /\ mem_out.done) =>
        \A c \in ColSet :
            LET b == big_out.summary[c]
                m == mem_out.summary[c]
            IN  /\ b.n_null = m.n_null
                /\ b.perc_null = m.perc_null
                /\ (b.max = None) <=> (m.max = NaN)
                /\ (b.min = None) <=> (m.min = NaN)
                /\ b.max # None => b.max = m.max
                /\ b.min # None => b.min = m.min
                /\ Cardinality(Distinct(c)) <= n_uniq_toomany => b.n_uniq = m.n_uniq

\* C5: the reported unique count is the sentinel exactly when the column has
\* more than n_uniq_toomany distinct trimmed values (the blank counting as
\* one), and otherwise is the exact number of distinct trimmed values.
C5_UniqueCount ==
    big_out.done =>
        \A c \in ColSet :
            big_out.summary[c].n_uniq =
                IF Cardinality(Distinct(c)) > n_uniq_toomany
                THEN [toomany |-> TRUE, n |-> n_uniq_toomany]
                ELSE [toomany |-> FALSE, n |-> Cardinality(Distinct(c))]

\* The non-blank trimmed values of column c in the rows read.
NonBlank(c) == Distinct(c) \ {Blank}
\* Column c had a non-blank value that float() rejects.
FailedParse(c) == \E v \in NonBlank(c) : ~float(v).ok
Numbers(c) == {float(v).val : v \in NonBlank(c)}

\* C6: once a non-blank value of a column failed to parse, the column's
\* numeric flag is false from then on and its min and max are reported
\* absent; they are absent too for a column without a non-blank value, and
\* otherwise are the minimum and the maximum of the non-blank values.
C6_NumericFlagAndExtremes ==
    /\ \A c \in ColSet : FailedParse(c) => ~col_numeric[c]
    /\ big_out.done =>
          \A c \in ColSet :
              LET b == big_out.summary[c]
              IN  IF FailedParse(c) \/ NonBlank(c) = {}
                  THEN b.max = None /\ b.min = None
                  ELSE /\ b.max \in Numbers(c)
                       /\ b.min \in Numbers(c)
                       /\ \A x \in Numbers(c) : b.min <= x /\ x <= b.max

\* C8: with zero data rows no summarizer returns a summary and no pickle is
\* written: the call ends in an error.
C8_EmptySourceIsAnError ==
    (rows = <<>> /\ spc # "reading") =>
        /\ spc # "returned"
        /\ ~big_out.done
        /\ ~mem_out.done
        /\ pkl = {}

\* C9: find_binary_cols returns exactly the columns whose non-null distinct
\* values form a non-empty subset of {0, 1}.
C9_BinaryColumns ==
    bpc = "returned" =>
        Range(binary_cols) =
            {c \in BinColumns : unique_vals(c) # {} /\ unique_vals(c) \subseteq {0, 1}}

====
